---- MODULE Spec2Model ----
(***************************************************************************)
(* The process-pdf edge function (supabase/functions/process-pdf/index.ts) *)
(* as a state machine.  The source file holds three successive revisions   *)
(* of the request handler that implement the chunk / filter / budget       *)
(* pipeline:                                                               *)
(*   revision 1  lines   16-360   per-document and combined budgets        *)
(*   revision 2  lines  383-854   model / includeFullContent parameters    *)
(*   revision 3  lines  869-1256  chunkText + checkRelevance filtering     *)
(* One revision is deployed per behaviour (ver); requests are served one   *)
(* at a time and share the document table and the storage bucket.  The     *)
(* oldest block of the file (lines 1266-1406) has no pipeline: it sends    *)
(* the whole content in one completion call, and is left out.              *)
(*                                                                         *)
(* Text is kept as a sequence of pieces, each a slice [off, off+len) of a  *)
(* named source (the file of a document, a literal of the prompt template, *)
(* an excerpt written by the filter model), so that substring and          *)
(* concatenation are computed, and lengths are the lengths the code sees.  *)
(***************************************************************************)
EXTENDS Integers, Sequences, FiniteSets, TLC

\* ---------------------------------------------------------------- bounds
MaxDocs == 2

\* ------------------------------------------------------ program constants
MAX_DOCUMENT_SAMPLE == 1
MAX_CHUNKS_PER_ANALYSIS == 1
V1_DOC_LIMIT == 5000
V1_COMBINED_LIMIT == 3000
V1_SUMMARY_LIMIT == 3000
V2_DOC_LIMIT == 10000
V2_DOC_LIMIT_FULL == 20000
V2_COMBINED_LIMIT == 20000
V2_COMBINED_LIMIT_FULL == 40000
V2_SUMMARY_LIMIT == 8000
CHUNK_SIZE == 100000
EXCERPT_LEN == 3000
SUMMARY_CHUNKS == 5
FALLBACK_CHUNKS == 3
\* "\n\n[...content omitted for length...]\n\n".length
MARKER_LEN == 38

DocIds == 1..MaxDocs
\* an id the documents table does not hold
NoSuchDoc == MaxDocs + 1
Versions == {1, 2, 3}

Min(a, b) == IF a < b THEN a ELSE b

\* ------------------------------------------------------------------ text
\* A stored file: len characters as returned by Blob.text(); norm is the
\* length left once runs of whitespace are collapsed and the ends trimmed
\* (norm = 0: the text is whitespace only).
EmptyFile == [len |-> 0, norm |-> 0]
BlankFile == [len |-> 3, norm |-> 0]
SmallFile == [len |-> 2000, norm |-> 1900]
MidFile   == [len |-> 25000, norm |-> 24000]
HugeFile  == [len |-> 350000, norm |-> 340000]

\* The first document ranges over every kind of file, the others over the
\* kinds that fit one chunk.
FileKinds(d) ==
  IF d = 1 THEN {EmptyFile, BlankFile, SmallFile, MidFile, HugeFile}
           ELSE {BlankFile, SmallFile, MidFile}

Piece(src, d, off, len) == [src |-> src, d |-> d, off |-> off, len |-> len]

Lit(src, d, len) == IF len = 0 THEN <<>> ELSE <<Piece(src, d, 0, len)>>

RECURSIVE CLen(_)
CLen(c) == IF c = <<>> THEN 0 ELSE Head(c).len + CLen(Tail(c))

\* String.prototype.substring(s, e) for 0 <= s
RECURSIVE Substring(_, _, _)
Substring(c, s, e) ==
  IF c = <<>> \/ e <= s THEN <<>>
  ELSE LET p == Head(c) IN
       IF s >= p.len
       THEN Substring(Tail(c), s - p.len, e - p.len)
       ELSE LET hi == Min(e, p.len) IN
            <<Piece(p.src, p.d, p.off + s, hi - s)>>
              \o Substring(Tail(c), 0, e - p.len)

TitleLen(d) == 10 + d

VARIABLES
  ver,             \* deployed revision of the handler
  files,           \* storage bucket: document -> stored file
  db,              \* documents table: document -> [present, content, analysis]
  req,             \* request body being served
  docs,            \* the request's documents array (content may be assigned)
  pc,              \* position of the handler
  i,               \* index of the for..of loop over documents
  j,               \* index of the for..of loop over chunks
  docContent,      \* let docContent
  resolved,        \* the resolved text before any limit was applied
  combinedContent, \* let combinedContent
  excerpts,        \* relevantContentChunks / relevantChunks
  prompt,          \* the content placed in the prompt
  resp,            \* the Response returned
  calls,           \* calls made to the collaborators during the request
  fails,           \* failures of collaborators met during the request
  fn               \* a function outside the handler: its input, position, result

vars == <<fn, ver, files, db, req, docs, pc, i, j, docContent, resolved,
          combinedContent, excerpts, prompt, resp, calls, fails>>

\* text of the stored file of d as Blob.text() returns it
RawText(d) == Lit("raw", d, files[d].len)

\* decoder.decode(...).replace(/\0/g, '').replace(/\s+/g, ' ').trim()
NormText(d) == Lit("norm", d, files[d].norm)

\* docContent.trim() === ''
IsBlank(c) ==
  \A n \in 1..Len(c) : c[n].src = "raw" /\ files[c[n].d].norm = 0

NoResp == [status |-> 0, analysis |-> "none", error |-> "none"]
Ok(analysis) == [status |-> 200, analysis |-> analysis, error |-> "none"]

NoCalls == [main |-> 0, lookup |-> 0,
            download |-> [d \in DocIds |-> 0],
            relevance |-> [d \in DocIds |-> 0],
            contentWrite |-> [d \in DocIds |-> 0],
            analysisWrite |-> [d \in DocIds |-> 0]]

NoReq == [mode |-> "none", documentId |-> NoSuchDoc, question |-> FALSE,
          full |-> FALSE]

NoFn == [name |-> "none"]

Init ==
  /\ fn = NoFn
  /\ ver \in Versions
  /\ files \in {f \in [DocIds -> {EmptyFile, BlankFile, SmallFile, MidFile, HugeFile}] :
                  \A d \in DocIds : f[d] \in FileKinds(d)}
  /\ \E cached \in SUBSET DocIds :
       db = [d \in DocIds |->
               [present |-> TRUE,
                content |-> IF d \in cached THEN Lit("raw", d, files[d].len) ELSE <<>>,
                analysis |-> "none"]]
  /\ req = NoReq
  /\ docs = <<>>
  /\ pc = "idle"
  /\ i = 0
  /\ j = 0
  /\ docContent = <<>>
  /\ resolved = <<>>
  /\ combinedContent = <<>>
  /\ excerpts = <<>>
  /\ prompt = <<>>
  /\ resp = NoResp
  /\ calls = NoCalls
  /\ fails = {}

DownloadOutcomes == {"ok", "error", "throw", "text_throw"}
WriteOutcomes == {"ok", "error", "throw"}
ModelOutcomes == {"ok", "http_error", "network_error", "bad_body"}

\* ------------------------------------------------------------- request
\* the documentId of a single-document request: the first document of the
\* table or an id the table does not hold
SingleIds == {1, NoSuchDoc}

\* Receive where a documentId, when the table holds it, selects the
\* single-document path even though a documents array came along
Receive_DocumentIdFirst ==
  /\ pc = "idle"
  /\ \E mode \in {"cross", "single"}, q \in BOOLEAN, full \in BOOLEAN,
        id \in SingleIds, n \in 0..MaxDocs :
       /\ ver # 2 => ~full
       /\ mode = "cross" => q /\ (id \in DocIds => n <= 1)
       /\ mode = "single" => n = 0
       /\ req' = [mode |-> mode, documentId |-> id, question |-> q, full |-> full]
       /\ docs' = IF mode = "cross"
                  THEN [k \in 1..n |-> [id |-> k, content |-> db[k].content]]
                  ELSE <<>>
       /\ pc' = IF mode = "single" \/ id \in DocIds THEN "lookup"
                ELSE IF ver = 3 THEN "cross_scan" ELSE "cross_resolve"
  /\ i' = 1
  /\ j' = 1
  /\ UNCHANGED <<fn, ver, files, db, docContent, resolved, combinedContent,
                 excerpts, prompt, resp, calls, fails>>

\* const { documentId, question, documents, ... } = await req.json();
\* if (documents) ... else single document processing
\* (mode "cross": the body carries a documents array, with or without a
\* documentId, the array having at most one entry when a documentId comes
\* along; mode "single": it carries none)
Receive ==
  /\ pc = "idle"
  /\ \E mode \in {"cross", "single"}, q \in BOOLEAN, full \in BOOLEAN,
        id \in SingleIds, n \in 0..MaxDocs :
       /\ ver # 2 => ~full
       /\ mode = "cross" => q /\ (id \in DocIds => n <= 1)
       /\ mode = "single" => n = 0
       /\ req' = [mode |-> mode, documentId |-> id, question |-> q, full |-> full]
       /\ docs' = IF mode = "cross"
                  THEN [k \in 1..n |-> [id |-> k, content |-> db[k].content]]
                  ELSE <<>>
       /\ pc' = IF mode = "single" THEN "lookup"
                ELSE IF ver = 3 THEN "cross_scan" ELSE "cross_resolve"
  /\ i' = 1
  /\ j' = 1
  /\ UNCHANGED <<fn, ver, files, db, docContent, resolved, combinedContent,
                 excerpts, prompt, resp, calls, fails>>

\* documents.slice(0, MAX_DOCUMENT_SAMPLE)
DocumentSample == SubSeq(docs, 1, Min(Len(docs), MAX_DOCUMENT_SAMPLE))

\* `Document "${doc.title}":\n`
LabelV1(d) == Lit("label", d, 13 + TitleLen(d))

\* revision 1, one iteration of the cross-document loop
CrossResolveV1 ==
  /\ pc = "cross_resolve" /\ ver = 1
  /\ i <= Len(DocumentSample)
  /\ LET doc == DocumentSample[i]
         cached == doc.content
         needsDownload == cached = <<>> \/ IsBlank(cached)
     IN \E out \in DownloadOutcomes :
          /\ ~needsDownload => out = "ok"
          /\ LET content == IF needsDownload THEN RawText(doc.id) ELSE cached
                 skipped == (needsDownload /\ out # "ok") \/ content = <<>>
                 limited == IF CLen(content) > V1_DOC_LIMIT
                            THEN Substring(content, 0, V1_DOC_LIMIT)
                            ELSE content
             IN /\ calls' = IF needsDownload
                            THEN [calls EXCEPT !.download[doc.id] = @ + 1]
                            ELSE calls
                /\ fails' = IF needsDownload /\ out # "ok"
                            THEN fails \cup {"download"} ELSE fails
                /\ IF skipped
                   THEN UNCHANGED <<docContent, resolved, combinedContent>>
                   ELSE /\ resolved' = content
                        /\ docContent' = limited
                        /\ combinedContent' =
                             combinedContent \o LabelV1(doc.id) \o limited
                               \o Lit("sep", doc.id, 2)
  /\ i' = i + 1
  /\ UNCHANGED <<fn, ver, files, db, req, docs, pc, j, excerpts, prompt, resp>>

\* catch (error) at the handler boundary, revisions 1 and 2
Failed12(msg) == [status |-> 500, analysis |-> "retry", error |-> msg]

\* catch (error) at the handler boundary, revision 3
Failed3(msg) == [status |-> 500, analysis |-> "absent", error |-> msg]

\* revision 1, after the loop: combined limit, empty short-circuit, prompt
CrossBudgetV1 ==
  /\ pc = "cross_resolve" /\ ver = 1
  /\ i > Len(DocumentSample)
  /\ LET limited == IF CLen(combinedContent) > V1_COMBINED_LIMIT
                    THEN Substring(combinedContent, 0, V1_COMBINED_LIMIT)
                    ELSE combinedContent
     IN /\ combinedContent' = limited
        /\ IF CLen(limited) = 0
           THEN /\ resp' = Ok("nothing_found")
                /\ pc' = "done"
                /\ UNCHANGED prompt
           ELSE /\ prompt' = limited
                /\ pc' = "call_model"
                /\ UNCHANGED resp
  /\ UNCHANGED <<fn, ver, files, db, req, docs, i, j, docContent, resolved,
                 excerpts, calls, fails>>

\* Lookup whose error response lacks status: 500
Lookup_StatusDropped ==
  /\ pc = "lookup"
  /\ calls' = [calls EXCEPT !.lookup = @ + 1]
  /\ \E out \in {"ok", "error"} :
       LET found == /\ req.documentId \in DocIds
                    /\ db[req.documentId].present
                    /\ out = "ok"
       IN IF found
          THEN /\ pc' = "resolve"
               /\ UNCHANGED <<resp, fails>>
          ELSE /\ pc' = "done"
               /\ fails' = fails \cup {"lookup"}
               /\ resp' = [status |-> 200, analysis |-> "retry",
                           error |-> "Document not found"]
  /\ UNCHANGED <<fn, ver, files, db, req, docs, i, j, docContent, resolved,
                 combinedContent, excerpts, prompt>>

\* .from('documents').select('*').eq('id', documentId).single()
Lookup ==
  /\ pc = "lookup"
  /\ calls' = [calls EXCEPT !.lookup = @ + 1]
  /\ \E out \in {"ok", "error"} :
       LET found == /\ req.documentId \in DocIds
                    /\ db[req.documentId].present
                    /\ out = "ok"
       IN IF found
          THEN /\ pc' = "resolve"
               /\ UNCHANGED <<resp, fails>>
          ELSE /\ pc' = "done"
               /\ fails' = fails \cup {"lookup"}
               /\ resp' = IF ver = 3
                          THEN Failed3("Document not found")
                          ELSE Failed12("Document not found")
  /\ UNCHANGED <<fn, ver, files, db, req, docs, i, j, docContent, resolved,
                 combinedContent, excerpts, prompt>>

\* revision 1, single document: resolve, empty check, limit, prompt content
ResolveV1 ==
  /\ pc = "resolve" /\ ver = 1
  /\ LET d == req.documentId
         cached == db[d].content
         needsDownload == cached = <<>> \/ IsBlank(cached)
     IN \E out \in DownloadOutcomes :
          /\ ~needsDownload => out = "ok"
          /\ calls' = IF needsDownload
                      THEN [calls EXCEPT !.download[d] = @ + 1] ELSE calls
          /\ fails' = IF needsDownload /\ out # "ok"
                      THEN fails \cup {"download"} ELSE fails
          /\ IF needsDownload /\ out \in {"error", "throw"}
             THEN /\ resp' = Failed12("Error processing document")
                  /\ pc' = "done"
                  /\ UNCHANGED <<docContent, resolved, prompt>>
             ELSE LET content == IF ~needsDownload THEN cached
                                 ELSE IF out = "text_throw" THEN <<>>
                                 ELSE RawText(d)
                      limited == IF CLen(content) > V1_DOC_LIMIT
                                 THEN Substring(content, 0, V1_DOC_LIMIT)
                                 ELSE content
                  IN IF content = <<>> \/ IsBlank(content)
                     THEN /\ resp' = Ok("no_text")
                          /\ pc' = "done"
                          /\ UNCHANGED <<docContent, resolved, prompt>>
                     ELSE /\ resolved' = content
                          /\ docContent' = limited
                          /\ prompt' = IF req.question THEN limited
                                       ELSE Substring(limited, 0, V1_SUMMARY_LIMIT)
                          /\ pc' = "call_model"
                          /\ UNCHANGED resp
  /\ UNCHANGED <<fn, ver, files, db, req, docs, i, j, combinedContent, excerpts>>

\* the fallback analysis of the catch around the completion call
Fallback ==
  IF req.mode = "cross" THEN "fallback_cross"
  ELSE IF req.question THEN "fallback_question" ELSE "fallback_summary"

\* CallModelCaught whose catch stores the fallback analysis in the record
CallModelCaught_PersistsFallback ==
  /\ pc = "call_model"
  /\ calls' = [calls EXCEPT !.main = @ + 1]
  /\ \E out \in ModelOutcomes :
       IF out = "ok"
       THEN /\ UNCHANGED <<fails, db>>
            /\ IF req.mode = "single" /\ ~req.question
               THEN pc' = "persist" /\ UNCHANGED resp
               ELSE pc' = "done" /\ resp' = Ok("model")
       ELSE /\ fails' = fails \cup {"main"}
            /\ resp' = Ok(Fallback)
            /\ pc' = "done"
            /\ db' = IF req.mode = "single"
                     THEN [db EXCEPT ![req.documentId].analysis = "model"]
                     ELSE db
  /\ UNCHANGED <<fn, ver, files, req, docs, i, j, docContent, resolved,
                 combinedContent, excerpts, prompt>>

\* CallModelCaught that repeats a failed completion call once
CallModelCaught_RetriesOnce ==
  /\ pc = "call_model"
  /\ calls' = [calls EXCEPT !.main = @ + 1]
  /\ \E out \in ModelOutcomes :
       IF out = "ok"
       THEN /\ UNCHANGED fails
            /\ IF req.mode = "single" /\ ~req.question
               THEN pc' = "persist" /\ UNCHANGED resp
               ELSE pc' = "done" /\ resp' = Ok("model")
       ELSE /\ fails' = fails \cup {"main"}
            /\ IF calls.main = 0
               THEN UNCHANGED <<resp, pc>>
               ELSE resp' = Ok(Fallback) /\ pc' = "done"
  /\ UNCHANGED <<fn, ver, files, db, req, docs, i, j, docContent, resolved,
                 combinedContent, excerpts, prompt>>

\* revisions 1 and 2: fetch(chat/completions) inside try / catch (openAIError)
CallModelCaught ==
  /\ pc = "call_model"
  /\ calls' = [calls EXCEPT !.main = @ + 1]
  /\ \E out \in ModelOutcomes :
       IF out = "ok"
       THEN /\ UNCHANGED fails
            /\ IF req.mode = "single" /\ ~req.question
               THEN pc' = "persist" /\ UNCHANGED resp
               ELSE pc' = "done" /\ resp' = Ok("model")
       ELSE /\ fails' = fails \cup {"main"}
            /\ resp' = Ok(Fallback)
            /\ pc' = "done"
  /\ UNCHANGED <<fn, ver, files, db, req, docs, i, j, docContent, resolved,
                 combinedContent, excerpts, prompt>>

CallModelV1 == ver = 1 /\ CallModelCaught

\* revision 1: .update({ analysis }) in its own try / catch, then the response
PersistV1 ==
  /\ pc = "persist" /\ ver = 1
  /\ LET d == req.documentId IN
     \E out \in WriteOutcomes :
       /\ calls' = [calls EXCEPT !.analysisWrite[d] = @ + 1]
       /\ db' = IF out = "ok" THEN [db EXCEPT ![d].analysis = "model"] ELSE db
       /\ fails' = IF out = "ok" THEN fails ELSE fails \cup {"analysisWrite"}
  /\ resp' = Ok("model")
  /\ pc' = "done"
  /\ UNCHANGED <<fn, ver, files, req, docs, i, j, docContent, resolved,
                 combinedContent, excerpts, prompt>>

\* const maxDocContentSize = includeFullContent ? 20000 : 10000
MaxDocContentSize == IF req.full THEN V2_DOC_LIMIT_FULL ELSE V2_DOC_LIMIT

\* const maxCombinedContentSize = includeFullContent ? 40000 : 20000
MaxCombinedContentSize ==
  IF req.full THEN V2_COMBINED_LIMIT_FULL ELSE V2_COMBINED_LIMIT

\* revision 2, cross-document: the limit applied to one document's text
LimitDocV2(content, d, max) ==
  IF CLen(content) > max
  THEN LET startPortion == (max * 7) \div 10
           endPortion == max - startPortion
       IN Substring(content, 0, startPortion)
            \o Lit("marker", d, MARKER_LEN)
            \o Substring(content, CLen(content) - endPortion, CLen(content))
  ELSE content

\* `\n\n### Document: "${doc.title}"\n\n`
LabelV2(d) == Lit("label", d, 20 + TitleLen(d))

\* CrossResolveV2 where a failed download throws instead of continue
CrossResolveV2_AbortOnError ==
  /\ pc = "cross_resolve" /\ ver = 2
  /\ i <= Len(docs)
  /\ LET doc == docs[i] IN
     \E out \in DownloadOutcomes :
       LET content == NormText(doc.id)
           limited == LimitDocV2(content, doc.id, MaxDocContentSize)
       IN /\ calls' = [calls EXCEPT !.download[doc.id] = @ + 1]
          /\ fails' = IF out # "ok" THEN fails \cup {"download"} ELSE fails
          /\ IF out # "ok"
             THEN /\ resp' = Failed12("Error processing document")
                  /\ pc' = "done"
                  /\ UNCHANGED <<docContent, resolved, combinedContent>>
             ELSE /\ UNCHANGED <<resp, pc>>
                  /\ IF content = <<>>
                     THEN UNCHANGED <<docContent, resolved, combinedContent>>
                     ELSE /\ resolved' = content
                          /\ docContent' = limited
                          /\ combinedContent' =
                               combinedContent \o LabelV2(doc.id) \o limited
                                 \o Lit("sep", doc.id, 2)
  /\ i' = i + 1
  /\ UNCHANGED <<fn, ver, files, db, req, docs, j, excerpts, prompt>>

\* revision 2, one iteration of the cross-document loop
CrossResolveV2 ==
  /\ pc = "cross_resolve" /\ ver = 2
  /\ i <= Len(docs)
  /\ LET doc == docs[i] IN
     \E out \in DownloadOutcomes :
       LET content == NormText(doc.id)
           skipped == out # "ok" \/ content = <<>>
           limited == LimitDocV2(content, doc.id, MaxDocContentSize)
       IN /\ calls' = [calls EXCEPT !.download[doc.id] = @ + 1]
          /\ fails' = IF out # "ok" THEN fails \cup {"download"} ELSE fails
          /\ IF skipped
             THEN UNCHANGED <<docContent, resolved, combinedContent>>
             ELSE /\ resolved' = content
                  /\ docContent' = limited
                  /\ combinedContent' =
                       combinedContent \o LabelV2(doc.id) \o limited
                         \o Lit("sep", doc.id, 2)
  /\ i' = i + 1
  /\ UNCHANGED <<fn, ver, files, db, req, docs, pc, j, excerpts, prompt, resp>>

\* revision 2, after the loop: combined limit, empty short-circuit, prompt
CrossBudgetV2 ==
  /\ pc = "cross_resolve" /\ ver = 2
  /\ i > Len(docs)
  /\ LET limited == IF CLen(combinedContent) > MaxCombinedContentSize
                    THEN Substring(combinedContent, 0, MaxCombinedContentSize)
                    ELSE combinedContent
     IN /\ combinedContent' = limited
        /\ IF CLen(limited) = 0
           THEN /\ resp' = Ok("nothing_found")
                /\ pc' = "done"
                /\ UNCHANGED prompt
           ELSE /\ prompt' = limited
                /\ pc' = "call_model"
                /\ UNCHANGED resp
  /\ UNCHANGED <<fn, ver, files, db, req, docs, i, j, docContent, resolved,
                 excerpts, calls, fails>>

\* revision 2, single document: resolve, empty check, limit, prompt content
ResolveV2 ==
  /\ pc = "resolve" /\ ver = 2
  /\ LET d == req.documentId
         cached == db[d].content
         needsDownload == cached = <<>> \/ IsBlank(cached)
     IN \E out \in DownloadOutcomes :
          /\ ~needsDownload => out = "ok"
          /\ calls' = IF needsDownload
                      THEN [calls EXCEPT !.download[d] = @ + 1] ELSE calls
          /\ fails' = IF needsDownload /\ out # "ok"
                      THEN fails \cup {"download"} ELSE fails
          /\ IF needsDownload /\ out \in {"error", "throw"}
             THEN /\ resp' = Failed12("Error processing document")
                  /\ pc' = "done"
                  /\ UNCHANGED <<docContent, resolved, prompt>>
             ELSE LET content == IF ~needsDownload THEN cached
                                 ELSE IF out = "text_throw" THEN <<>>
                                 ELSE NormText(d)
                      limited == IF CLen(content) > MaxDocContentSize
                                 THEN Substring(content, 0, MaxDocContentSize)
                                 ELSE content
                  IN IF content = <<>> \/ IsBlank(content)
                     THEN /\ resp' = Ok("no_text")
                          /\ pc' = "done"
                          /\ UNCHANGED <<docContent, resolved, prompt>>
                     ELSE /\ resolved' = content
                          /\ docContent' = limited
                          /\ prompt' = IF req.question THEN limited
                                       ELSE Substring(limited, 0, V2_SUMMARY_LIMIT)
                          /\ pc' = "call_model"
                          /\ UNCHANGED resp
  /\ UNCHANGED <<fn, ver, files, db, req, docs, i, j, combinedContent, excerpts>>

CallModelV2 == ver = 2 /\ CallModelCaught

\* revision 2: .update({ analysis }), then .update({ content: docContent })
\* when the record had no content, both in one try / catch
PersistV2 ==
  /\ pc = "persist" /\ ver = 2
  /\ LET d == req.documentId
         storesContent(a) == a # "throw" /\ db[d].content = <<>> /\ docContent # <<>>
     IN \E a \in WriteOutcomes, c \in WriteOutcomes :
          /\ ~storesContent(a) => c = "ok"
          /\ calls' = [calls EXCEPT
                         !.analysisWrite[d] = @ + 1,
                         !.contentWrite[d] = IF storesContent(a) THEN @ + 1 ELSE @]
          /\ db' = [db EXCEPT
                      ![d].analysis = IF a = "ok" THEN "model" ELSE @,
                      ![d].content = IF storesContent(a) /\ c = "ok"
                                     THEN docContent ELSE @]
          /\ fails' = fails \cup (IF a = "ok" THEN {} ELSE {"analysisWrite"})
                            \cup (IF c = "ok" THEN {} ELSE {"contentWrite"})
  /\ resp' = Ok("model")
  /\ pc' = "done"
  /\ UNCHANGED <<fn, ver, files, req, docs, i, j, docContent, resolved,
                 combinedContent, excerpts, prompt>>

\* function chunkText(text, chunkSize): the for loop from offset at
RECURSIVE ChunksFrom(_, _, _)
ChunksFrom(text, chunkSize, at) ==
  IF at < CLen(text)
  THEN <<Substring(text, at, at + chunkSize)>>
         \o ChunksFrom(text, chunkSize, at + chunkSize)
  ELSE <<>>

\* chunkText whose loop starts at offset 1
chunkText_SkipsFirstChar(text, chunkSize) == ChunksFrom(text, chunkSize, 1)

\* chunkText that cuts pieces of chunkSize + 1 characters
chunkText_WiderChunks(text, chunkSize) == ChunksFrom(text, chunkSize + 1, 0)

chunkText(text, chunkSize) == ChunksFrom(text, chunkSize, 0)

\* Array.prototype.join(sep)
RECURSIVE Join(_, _)
Join(parts, sep) ==
  IF parts = <<>> THEN <<>>
  ELSE IF Len(parts) = 1 THEN parts[1]
  ELSE parts[1] \o sep \o Join(Tail(parts), sep)

\* what the filter model's call can come back with
\*   http_error     response.ok is false
\*   network_error  fetch rejects
\*   bad_body       response.json() rejects or has no choices[0].message
\*   null_content   message.content is null
\*   json           content parses; isRelevant, excerpt of excerptLen (0: none)
\*   text           content does not parse; raw is the content
RelevanceOutcomesWith(lens, raws) ==
  [kind : {"http_error", "network_error", "bad_body", "null_content"},
   isRelevant : {FALSE}, excerptLen : {0}, raw : {""}]
  \cup [kind : {"json"}, isRelevant : {TRUE}, excerptLen : lens, raw : {""}]
  \cup [kind : {"json"}, isRelevant : {FALSE}, excerptLen : {0}, raw : {""}]
  \cup [kind : {"text"}, isRelevant : {FALSE}, excerptLen : {0}, raw : raws]

\* contents that JSON.parse rejects
RawTexts ==
  {"I cannot tell.",
   "Sure: \"isRelevant\": true, \"excerpt\": ...",
   "\"ISRELEVANT\":TRUE",
   "\"isRelevant\" : true",
   "isRelevant: true",
   "\"isRelevant\": false"}

\* String.prototype.toLowerCase()
toLowerCase(t) ==
  CASE t = "I cannot tell." -> "i cannot tell."
    [] t = "Sure: \"isRelevant\": true, \"excerpt\": ..." ->
         "sure: \"isrelevant\": true, \"excerpt\": ..."
    [] t = "\"ISRELEVANT\":TRUE" -> "\"isrelevant\":true"
    [] t = "\"isRelevant\" : true" -> "\"isrelevant\" : true"
    [] t = "isRelevant: true" -> "isrelevant: true"
    [] t = "\"isRelevant\": false" -> "\"isrelevant\": false"

\* String.prototype.includes(needle), on the lower-cased contents
includes(t, needle) ==
  CASE needle = "\"isrelevant\": true" ->
         t = "sure: \"isrelevant\": true, \"excerpt\": ..."
    [] needle = "\"isrelevant\":true" -> t = "\"isrelevant\":true"

\* result.toLowerCase().includes('"isrelevant": true') ||
\* result.toLowerCase().includes('"isrelevant":true')
MarkerFound(result) ==
  \/ includes(toLowerCase(result), "\"isrelevant\": true")
  \/ includes(toLowerCase(result), "\"isrelevant\":true")

ModelExcerptLens == {0, 40}
ModelRawTexts == {"I cannot tell.", "\"ISRELEVANT\":TRUE"}
RelevanceOutcomes == RelevanceOutcomesWith(ModelExcerptLens, ModelRawTexts)

\* chunk.substring(0, 3000)
ChunkPrefix(chunk) == Substring(chunk, 0, EXCERPT_LEN)

NotRelevant == [isRelevant |-> FALSE, excerpt |-> <<>>]
Relevant(excerpt) == [isRelevant |-> TRUE, excerpt |-> excerpt]

\* checkRelevance that always cuts the excerpt from the chunk
checkRelevance_IgnoresExcerpt(chunk, out, d, jj) ==
  CASE out.kind = "http_error" -> Relevant(ChunkPrefix(chunk))
    [] out.kind \in {"network_error", "bad_body", "null_content"} ->
         Relevant(ChunkPrefix(chunk))
    [] out.kind = "json" ->
         IF out.isRelevant THEN Relevant(ChunkPrefix(chunk)) ELSE NotRelevant
    [] out.kind = "text" ->
         IF MarkerFound(out.raw) THEN Relevant(ChunkPrefix(chunk)) ELSE NotRelevant

\* checkRelevance without the inner catch: a parse failure reaches the
\* outer catch
checkRelevance_ParseFailureFailsOpen(chunk, out, d, jj) ==
  CASE out.kind = "http_error" -> Relevant(ChunkPrefix(chunk))
    [] out.kind \in {"network_error", "bad_body", "null_content"} ->
         Relevant(ChunkPrefix(chunk))
    [] out.kind = "json" ->
         IF out.isRelevant
         THEN Relevant(IF out.excerptLen > 0
                       THEN <<Piece("excerpt", d, jj, out.excerptLen)>>
                       ELSE ChunkPrefix(chunk))
         ELSE NotRelevant
    [] out.kind = "text" -> Relevant(ChunkPrefix(chunk))

\* checkRelevance that drops the chunk when the filter call is not ok
checkRelevance_FailClosed(chunk, out, d, jj) ==
  CASE out.kind = "http_error" -> NotRelevant
    [] out.kind \in {"network_error", "bad_body", "null_content"} ->
         Relevant(ChunkPrefix(chunk))
    [] out.kind = "json" ->
         IF out.isRelevant
         THEN Relevant(IF out.excerptLen > 0
                       THEN <<Piece("excerpt", d, jj, out.excerptLen)>>
                       ELSE ChunkPrefix(chunk))
         ELSE NotRelevant
    [] out.kind = "text" ->
         IF MarkerFound(out.raw) THEN Relevant(ChunkPrefix(chunk)) ELSE NotRelevant

\* async function checkRelevance(chunk, question), chunk j of document d
checkRelevance(chunk, out, d, jj) ==
  CASE out.kind = "http_error" -> Relevant(ChunkPrefix(chunk))
    [] out.kind \in {"network_error", "bad_body", "null_content"} ->
         Relevant(ChunkPrefix(chunk))
    [] out.kind = "json" ->
         IF out.isRelevant
         THEN Relevant(IF out.excerptLen > 0
                       THEN <<Piece("excerpt", d, jj, out.excerptLen)>>
                       ELSE ChunkPrefix(chunk))
         ELSE NotRelevant
    [] out.kind = "text" ->
         IF MarkerFound(out.raw) THEN Relevant(ChunkPrefix(chunk)) ELSE NotRelevant

RelevanceFailed(out) ==
  out.kind \in {"http_error", "network_error", "bad_body", "null_content"}

\* doc.content && doc.content.trim() !== ''
HasContent(c) == c # <<>> /\ ~IsBlank(c)

\* CrossScanV3 that waits for a document with content instead of fetching
CrossScanV3_WaitsForContent ==
  /\ pc = "cross_scan" /\ ver = 3
  /\ LET documentsWithContent == SelectSeq(docs, LAMBDA doc : HasContent(doc.content))
     IN pc' = IF Len(documentsWithContent) = 0 THEN "cross_scan"
              ELSE "cross_filter"
  /\ UNCHANGED <<fn, ver, files, db, req, docs, i, j, docContent, resolved,
                 combinedContent, excerpts, prompt, resp, calls, fails>>

\* revision 3: documentsWithContent.length === 0 decides whether to fetch
CrossScanV3 ==
  /\ pc = "cross_scan" /\ ver = 3
  /\ LET documentsWithContent == SelectSeq(docs, LAMBDA doc : HasContent(doc.content))
     IN pc' = IF Len(documentsWithContent) = 0 THEN "cross_fetch"
              ELSE "cross_filter"
  /\ UNCHANGED <<fn, ver, files, db, req, docs, i, j, docContent, resolved,
                 combinedContent, excerpts, prompt, resp, calls, fails>>

\* revision 3, one iteration of the fetch loop
CrossFetchV3 ==
  /\ pc = "cross_fetch" /\ ver = 3
  /\ IF i > Len(docs)
     THEN /\ pc' = "cross_filter"
          /\ i' = 1
          /\ UNCHANGED <<docs, db, calls, fails>>
     ELSE LET doc == docs[i] IN
          /\ pc' = pc
          /\ i' = i + 1
          /\ IF doc.content # <<>>
             THEN UNCHANGED <<docs, db, calls, fails>>
             ELSE \E out \in DownloadOutcomes, w \in WriteOutcomes :
                    /\ out # "ok" => w = "ok"
                    /\ calls' = [calls EXCEPT
                                   !.download[doc.id] = @ + 1,
                                   !.contentWrite[doc.id] =
                                      IF out = "ok" THEN @ + 1 ELSE @]
                    /\ fails' = fails
                         \cup (IF out = "ok" THEN {} ELSE {"download"})
                         \cup (IF w = "ok" THEN {} ELSE {"contentWrite"})
                    /\ docs' = IF out = "ok"
                               THEN [docs EXCEPT ![i].content = RawText(doc.id)]
                               ELSE docs
                    /\ db' = IF out = "ok" /\ w = "ok"
                             THEN [db EXCEPT ![doc.id].content = RawText(doc.id)]
                             ELSE db
  /\ UNCHANGED <<fn, ver, files, req, j, docContent, resolved, combinedContent,
                 excerpts, prompt, resp>>

\* revision 3, the relevantContentChunks loop: one checkRelevance call
CrossFilterV3 ==
  /\ pc = "cross_filter" /\ ver = 3
  /\ i <= Len(docs)
  /\ LET doc == docs[i]
         chunks == chunkText(doc.content, CHUNK_SIZE)
     IN IF ~HasContent(doc.content)
        THEN /\ i' = i + 1
             /\ j' = 1
             /\ UNCHANGED <<excerpts, calls, fails>>
        ELSE \E out \in RelevanceOutcomes :
               LET relevanceCheck == checkRelevance(chunks[j], out, doc.id, j) IN
               /\ calls' = [calls EXCEPT !.relevance[doc.id] = @ + 1]
               /\ UNCHANGED fails
               /\ excerpts' = IF relevanceCheck.isRelevant
                              THEN Append(excerpts,
                                          LabelV1(doc.id) \o relevanceCheck.excerpt)
                              ELSE excerpts
               /\ IF j < Len(chunks)
                  THEN j' = j + 1 /\ i' = i
                  ELSE j' = 1 /\ i' = i + 1
  /\ UNCHANGED <<fn, ver, files, db, req, docs, pc, docContent, resolved,
                 combinedContent, prompt, resp>>

\* CrossAssembleV3 without the relevantContentChunks.length === 0 return
CrossAssembleV3_NoShortCircuit ==
  /\ pc = "cross_filter" /\ ver = 3
  /\ i > Len(docs)
  /\ combinedContent' = Join(excerpts, Lit("sep", 0, 2))
  /\ prompt' = combinedContent'
  /\ pc' = "call_model"
  /\ UNCHANGED <<fn, ver, files, db, req, docs, i, j, docContent, resolved,
                 excerpts, resp, calls, fails>>

\* revision 3, after the loop: empty short-circuit or the combined excerpts
CrossAssembleV3 ==
  /\ pc = "cross_filter" /\ ver = 3
  /\ i > Len(docs)
  /\ IF Len(excerpts) = 0
     THEN /\ resp' = Ok("nothing_found")
          /\ pc' = "done"
          /\ UNCHANGED <<combinedContent, prompt>>
     ELSE /\ combinedContent' = Join(excerpts, Lit("sep", 0, 2))
          /\ prompt' = combinedContent'
          /\ pc' = "call_model"
          /\ UNCHANGED resp
  /\ UNCHANGED <<fn, ver, files, db, req, docs, i, j, docContent, resolved,
                 excerpts, calls, fails>>

\* revision 3, single document: download, cache-back, chunking
ResolveV3 ==
  /\ pc = "resolve" /\ ver = 3
  /\ LET d == req.documentId
         needsDownload == db[d].content = <<>>
     IN \E out \in DownloadOutcomes, w \in WriteOutcomes :
          /\ (~needsDownload \/ out # "ok") => w = "ok"
          /\ ~needsDownload => out = "ok"
          /\ calls' = IF needsDownload
                      THEN [calls EXCEPT
                              !.download[d] = @ + 1,
                              !.contentWrite[d] = IF out = "ok" THEN @ + 1 ELSE @]
                      ELSE calls
          /\ fails' = fails
               \cup (IF out = "ok" THEN {} ELSE {"download"})
               \cup (IF w = "ok" THEN {} ELSE {"contentWrite"})
          /\ db' = IF needsDownload /\ out = "ok" /\ w = "ok"
                   THEN [db EXCEPT ![d].content = RawText(d)] ELSE db
          /\ IF out # "ok"
             THEN /\ resp' = Failed3(IF out = "error" THEN "Error downloading PDF"
                                     ELSE "exception")
                  /\ pc' = "done"
                  /\ UNCHANGED <<docContent, resolved, prompt>>
             ELSE IF w # "ok"
             THEN /\ resp' = Failed3(IF w = "error"
                                     THEN "Error updating document content"
                                     ELSE "exception")
                  /\ pc' = "done"
                  /\ UNCHANGED <<docContent, resolved, prompt>>
             ELSE LET content == IF needsDownload THEN RawText(d)
                                 ELSE db[d].content
                      chunks == chunkText(content, CHUNK_SIZE)
                  IN /\ resolved' = content
                     /\ docContent' = content
                     /\ UNCHANGED resp
                     /\ IF req.question
                        THEN /\ pc' = "single_filter"
                             /\ UNCHANGED prompt
                        ELSE /\ pc' = "call_model"
                             /\ prompt' =
                                  Join(SubSeq(chunks, 1, Min(Len(chunks), SUMMARY_CHUNKS)),
                                       Lit("sep", 0, 2))
  /\ UNCHANGED <<fn, ver, files, req, docs, i, j, combinedContent, excerpts>>

\* revision 3, single document with a question: one checkRelevance call
SingleFilterV3 ==
  /\ pc = "single_filter" /\ ver = 3
  /\ LET chunks == chunkText(docContent, CHUNK_SIZE) IN
     /\ j <= Len(chunks)
     /\ \E out \in RelevanceOutcomes :
          LET relevanceCheck == checkRelevance(chunks[j], out, req.documentId, j) IN
          /\ calls' = [calls EXCEPT !.relevance[req.documentId] = @ + 1]
          /\ UNCHANGED fails
          /\ excerpts' = IF relevanceCheck.isRelevant
                         THEN Append(excerpts, relevanceCheck.excerpt)
                         ELSE excerpts
  /\ j' = j + 1
  /\ UNCHANGED <<fn, ver, files, db, req, docs, pc, i, docContent, resolved,
                 combinedContent, prompt, resp>>

\* SinglePromptV3 without the "use a subset of the document" branch
SinglePromptV3_NoFallback ==
  /\ pc = "single_filter" /\ ver = 3
  /\ j > Len(chunkText(docContent, CHUNK_SIZE))
  /\ prompt' = Join(excerpts, Lit("sep", 0, 2))
  /\ pc' = "call_model"
  /\ UNCHANGED <<fn, ver, files, db, req, docs, i, j, docContent, resolved,
                 combinedContent, excerpts, resp, calls, fails>>

\* revision 3: contentForAnalysis
SinglePromptV3 ==
  /\ pc = "single_filter" /\ ver = 3
  /\ j > Len(chunkText(docContent, CHUNK_SIZE))
  /\ prompt' = IF Len(excerpts) > 0
               THEN Join(excerpts, Lit("sep", 0, 2))
               ELSE Substring(docContent, 0, CHUNK_SIZE * FALLBACK_CHUNKS)
  /\ pc' = "call_model"
  /\ UNCHANGED <<fn, ver, files, db, req, docs, i, j, docContent, resolved,
                 combinedContent, excerpts, resp, calls, fails>>

\* revision 3: fetch(chat/completions) with no try / catch of its own
CallModelV3 ==
  /\ pc = "call_model" /\ ver = 3
  /\ calls' = [calls EXCEPT !.main = @ + 1]
  /\ \E out \in ModelOutcomes :
       IF out = "ok"
       THEN /\ UNCHANGED fails
            /\ IF req.mode = "single" /\ ~req.question
               THEN pc' = "persist" /\ UNCHANGED resp
               ELSE pc' = "done" /\ resp' = Ok("model")
       ELSE /\ fails' = fails \cup {"main"}
            /\ resp' = Failed3(IF out = "http_error" THEN "OpenAI API error"
                               ELSE "exception")
            /\ pc' = "done"
  /\ UNCHANGED <<fn, ver, files, db, req, docs, i, j, docContent, resolved,
                 combinedContent, excerpts, prompt>>

\* revision 3: .update({ analysis }), an error is thrown to the boundary
PersistV3 ==
  /\ pc = "persist" /\ ver = 3
  /\ LET d == req.documentId IN
     \E out \in WriteOutcomes :
       /\ calls' = [calls EXCEPT !.analysisWrite[d] = @ + 1]
       /\ db' = IF out = "ok" THEN [db EXCEPT ![d].analysis = "model"] ELSE db
       /\ fails' = IF out = "ok" THEN fails ELSE fails \cup {"analysisWrite"}
       /\ resp' = IF out = "ok" THEN Ok("model")
                  ELSE Failed3(IF out = "error"
                               THEN "Error updating document analysis"
                               ELSE "exception")
  /\ pc' = "done"
  /\ UNCHANGED <<fn, ver, files, req, docs, i, j, docContent, resolved,
                 combinedContent, excerpts, prompt>>

\* the Response is returned; the next request finds a fresh handler
Reply ==
  /\ pc = "done"
  /\ pc' = "idle"
  /\ req' = NoReq
  /\ docs' = <<>>
  /\ i' = 0
  /\ j' = 0
  /\ docContent' = <<>>
  /\ resolved' = <<>>
  /\ combinedContent' = <<>>
  /\ excerpts' = <<>>
  /\ prompt' = <<>>
  /\ resp' = NoResp
  /\ calls' = NoCalls
  /\ fails' = {}
  /\ UNCHANGED <<fn, ver, files, db>>

Next ==
  \/ Receive
  \/ CrossResolveV1
  \/ CrossBudgetV1
  \/ Lookup
  \/ ResolveV1
  \/ CallModelV1
  \/ PersistV1
  \/ CrossResolveV2
  \/ CrossBudgetV2
  \/ ResolveV2
  \/ CallModelV2
  \/ PersistV2
  \/ CrossScanV3
  \/ CrossFetchV3
  \/ CrossFilterV3
  \/ CrossAssembleV3
  \/ ResolveV3
  \/ SingleFilterV3
  \/ SinglePromptV3
  \/ CallModelV3
  \/ PersistV3
  \/ Reply

Spec == Init /\ [][Next]_vars

\* a step of the handler: the runtime runs it on, and every call returns
HandlerStep ==
  \/ CrossResolveV1 \/ CrossBudgetV1 \/ Lookup \/ ResolveV1 \/ CallModelV1
  \/ PersistV1 \/ CrossResolveV2 \/ CrossBudgetV2 \/ ResolveV2 \/ CallModelV2
  \/ PersistV2 \/ CrossScanV3 \/ CrossFetchV3 \/ CrossFilterV3
  \/ CrossAssembleV3 \/ ResolveV3 \/ SingleFilterV3 \/ SinglePromptV3
  \/ CallModelV3 \/ PersistV3 \/ Reply

\* the table of the fair specification: documents beyond the second are
\* small files with no cached content
InitLive ==
  /\ Init
  /\ \A d \in DocIds : d > 2 => files[d] = SmallFile /\ db[d].content = <<>>

SpecLive == InitLive /\ [][Next]_vars /\ WF_vars(HandlerStep)

\* --------------------------------------------- checkRelevance on its own
PureChunkLens == {1, 2999, 3000, 3001, 5001, 100000}
PureChunks == {<<Piece("raw", 1, off, len)>> : off \in {0, 100000}, len \in PureChunkLens}
PureOutcomes == RelevanceOutcomesWith({0, 1, 3000, 3001}, RawTexts)

InitRelevance ==
  /\ fn \in [name : {"checkRelevance"}, chunk : PureChunks, out : PureOutcomes,
             done : {FALSE}, result : {NotRelevant}]
  /\ ver = 3
  /\ files = [d \in DocIds |-> MidFile]
  /\ db = [d \in DocIds |-> [present |-> TRUE, content |-> <<>>, analysis |-> "none"]]
  /\ req = NoReq
  /\ docs = <<>>
  /\ pc = "pure"
  /\ i = 0
  /\ j = 0
  /\ docContent = <<>>
  /\ resolved = <<>>
  /\ combinedContent = <<>>
  /\ excerpts = <<>>
  /\ prompt = <<>>
  /\ resp = NoResp
  /\ calls = NoCalls
  /\ fails = {}

ApplyCheckRelevance ==
  /\ pc = "pure" /\ fn.name = "checkRelevance" /\ ~fn.done
  /\ fn' = [fn EXCEPT !.done = TRUE,
                      !.result = checkRelevance(fn.chunk, fn.out, 1, 1)]
  /\ UNCHANGED <<ver, files, db, req, docs, pc, i, j, docContent, resolved,
                 combinedContent, excerpts, prompt, resp, calls, fails>>

NextRelevance == ApplyCheckRelevance

SpecRelevance == InitRelevance /\ [][NextRelevance]_vars

\* -------------------------------------------------- chunkText on its own
MaxTextLen == 6
MaxChunkSize == 4

\* a string argument, or null / undefined
Str(c) == [null |-> FALSE, text |-> c]
NullText == [null |-> TRUE, text |-> <<>>]

Returned(chunks) == [raised |-> FALSE, chunks |-> chunks]
\* TypeError: cannot read properties of null (reading 'length')
Raised == [raised |-> TRUE, chunks |-> <<>>]

\* revision 1: if (!text) return []; then the loop
chunkTextV1(t, chunkSize) ==
  IF t.null \/ t.text = <<>> THEN Returned(<<>>)
  ELSE Returned(chunkText(t.text, chunkSize))

\* revision 3: the loop reads text.length at once
chunkTextV3(t, chunkSize) ==
  IF t.null THEN Raised
  ELSE Returned(chunkText(t.text, chunkSize))

\* short texts of one and of two pieces, cut by every small chunk size
SmallTexts ==
  {Lit("raw", 1, n) : n \in 0..MaxTextLen}
    \cup {Lit("label", 1, m) \o Lit("raw", 1, n) : m \in 1..2, n \in 1..MaxTextLen - 2}

\* texts around the chunk size of revision 3
LargeTexts ==
  {Lit("raw", 1, n) : n \in {CHUNK_SIZE - 1, CHUNK_SIZE, CHUNK_SIZE + 1,
                             HugeFile.len}}

PureChunkInputs ==
  [text : {Str(c) : c \in SmallTexts} \cup {NullText}, chunkSize : 1..MaxChunkSize]
    \cup [text : {Str(c) : c \in LargeTexts} \cup {NullText}, chunkSize : {CHUNK_SIZE}]

InitChunk ==
  /\ \E rev \in {1, 3}, in \in PureChunkInputs :
       fn = [name |-> "chunkText", rev |-> rev, text |-> in.text,
             chunkSize |-> in.chunkSize, done |-> FALSE,
             result |-> Returned(<<>>), again |-> Returned(<<>>)]
  /\ ver = 3
  /\ files = [d \in DocIds |-> MidFile]
  /\ db = [d \in DocIds |-> [present |-> TRUE, content |-> <<>>, analysis |-> "none"]]
  /\ req = NoReq
  /\ docs = <<>>
  /\ pc = "pure"
  /\ i = 0
  /\ j = 0
  /\ docContent = <<>>
  /\ resolved = <<>>
  /\ combinedContent = <<>>
  /\ excerpts = <<>>
  /\ prompt = <<>>
  /\ resp = NoResp
  /\ calls = NoCalls
  /\ fails = {}

\* chunkText(text, chunkSize) called, and called once more on the same input
ApplyChunkText ==
  /\ pc = "pure" /\ fn.name = "chunkText" /\ ~fn.done
  /\ LET call == IF fn.rev = 1 THEN chunkTextV1(fn.text, fn.chunkSize)
                 ELSE chunkTextV3(fn.text, fn.chunkSize)
     IN fn' = [fn EXCEPT !.done = TRUE, !.result = call, !.again = call]
  /\ UNCHANGED <<ver, files, db, req, docs, pc, i, j, docContent, resolved,
                 combinedContent, excerpts, prompt, resp, calls, fails>>

NextChunk == ApplyChunkText

SpecChunk == InitChunk /\ [][NextChunk]_vars

\* ------------------------------------- the caller (src/utils/pdfUpload.ts)
\* documents.slice(0, 3)
CLIENT_DOC_LIMIT == 3

handlerVars == <<ver, files, db, req, docs, pc, i, j, docContent, resolved,
                 combinedContent, excerpts, prompt, resp, calls, fails>>

IsCaller == fn.name \in {"processDocument", "queryAllDocuments"}

\* processDocument(documentId, question) or queryAllDocuments(question) is
\* about to be called; the edge function is idle
InitClient ==
  /\ \E name \in {"processDocument", "queryAllDocuments"}, q \in BOOLEAN :
       /\ name = "queryAllDocuments" => q
       /\ fn = [name |-> name, question |-> q, pc |-> "start",
                timer |-> "unset", timedOut |-> FALSE, mainAtTimeout |-> 0,
                delivered |-> FALSE, result |-> "pending"]
  /\ ver \in Versions
  /\ files \in [DocIds -> {BlankFile, SmallFile, HugeFile}]
  /\ \A d \in DocIds : files[d] \in FileKinds(d)
  /\ \E cached \in SUBSET DocIds :
       db = [d \in DocIds |->
               [present |-> TRUE,
                content |-> IF d \in cached THEN Lit("raw", d, files[d].len) ELSE <<>>,
                analysis |-> "none"]]
  /\ req = NoReq
  /\ docs = <<>>
  /\ pc = "idle"
  /\ i = 0
  /\ j = 0
  /\ docContent = <<>>
  /\ resolved = <<>>
  /\ combinedContent = <<>>
  /\ excerpts = <<>>
  /\ prompt = <<>>
  /\ resp = NoResp
  /\ calls = NoCalls
  /\ fails = {}

\* supabase.functions.invoke('process-pdf', { body }): the request reaches
\* the handler
Invoke(mode, id, q) ==
  /\ req' = [mode |-> mode, documentId |-> id, question |-> q, full |-> ver = 2]
  /\ docs' = IF mode = "cross"
             THEN [k \in 1..Min(MaxDocs, CLIENT_DOC_LIMIT) |->
                     [id |-> k, content |-> db[k].content]]
             ELSE <<>>
  /\ pc' = IF mode = "single" THEN "lookup"
           ELSE IF ver = 3 THEN "cross_scan" ELSE "cross_resolve"
  /\ i' = 1
  /\ j' = 1
  /\ UNCHANGED <<ver, files, db, docContent, resolved, combinedContent,
                 excerpts, prompt, resp, calls, fails>>

\* setTimeout(reject, timeoutMs) is set; processDocument invokes the function
\* and awaits the race, queryAllDocuments first awaits the select
ClientStart ==
  /\ IsCaller /\ fn.pc = "start" /\ pc = "idle"
  /\ IF fn.name = "processDocument"
     THEN /\ \E id \in SingleIds : Invoke("single", id, fn.question)
          /\ fn' = [fn EXCEPT !.timer = "armed", !.pc = "racing"]
     ELSE /\ fn' = [fn EXCEPT !.timer = "armed", !.pc = "select"]
          /\ UNCHANGED handlerVars

\* queryAllDocuments: the select settles; on fetchError the catch returns
\* null, otherwise the function is invoked and the race awaited, which a
\* timer that fired during the select has already decided
ClientSelect ==
  /\ IsCaller /\ fn.pc = "select"
  /\ \E out \in {"ok", "error"} :
       IF out = "error"
       THEN /\ fn' = [fn EXCEPT !.pc = "returned", !.result = "null"]
            /\ UNCHANGED handlerVars
       ELSE /\ Invoke("cross", NoSuchDoc, TRUE)
            /\ fn' = IF fn.timer = "fired"
                     THEN [fn EXCEPT !.pc = "returned", !.result = "null"]
                     ELSE [fn EXCEPT !.pc = "racing"]

\* TimeoutFires that also ends the request in the edge function
TimeoutFires_Cancels ==
  /\ IsCaller /\ fn.timer = "armed"
  /\ fn' = [fn EXCEPT
              !.timer = "fired",
              !.timedOut = fn.result = "pending",
              !.mainAtTimeout = calls.main,
              !.pc = IF fn.pc = "racing" THEN "returned" ELSE @,
              !.result = IF fn.pc = "racing" THEN "null" ELSE @]
  /\ pc' = IF pc \in {"idle", "done"} THEN pc ELSE "done"
  /\ resp' = IF pc \in {"idle", "done"} THEN resp ELSE Failed12("cancelled")
  /\ UNCHANGED <<ver, files, db, req, docs, i, j, docContent, resolved,
                 combinedContent, excerpts, prompt, calls, fails>>

\* the timer's callback rejects timeoutPromise: an awaited race rejects and
\* the catch returns null; nothing is sent to the edge function
TimeoutFires ==
  /\ IsCaller /\ fn.timer = "armed"
  /\ fn' = [fn EXCEPT
              !.timer = "fired",
              !.timedOut = fn.result = "pending",
              !.mainAtTimeout = calls.main,
              !.pc = IF fn.pc = "racing" THEN "returned" ELSE @,
              !.result = IF fn.pc = "racing" THEN "null" ELSE @]
  /\ UNCHANGED handlerVars

\* functionPromise settles with the handler's Response: { data } for a 2xx,
\* { error } otherwise, which the caller throws and its catch turns to null
ResponseArrives ==
  /\ IsCaller /\ pc = "done" /\ ~fn.delivered
  /\ fn' = IF fn.pc = "racing"
           THEN [fn EXCEPT !.delivered = TRUE, !.pc = "returned",
                           !.result = IF resp.status = 200 THEN "data" ELSE "null"]
           ELSE [fn EXCEPT !.delivered = TRUE]
  /\ UNCHANGED handlerVars

\* a step of the handler serving the caller's request
ServerStep ==
  \/ CrossResolveV1 \/ CrossBudgetV1 \/ Lookup \/ ResolveV1 \/ CallModelV1
  \/ PersistV1 \/ CrossResolveV2 \/ CrossBudgetV2 \/ ResolveV2 \/ CallModelV2
  \/ PersistV2 \/ CrossScanV3 \/ CrossFetchV3 \/ CrossFilterV3
  \/ CrossAssembleV3 \/ ResolveV3 \/ SingleFilterV3 \/ SinglePromptV3
  \/ CallModelV3 \/ PersistV3

NextClient ==
  \/ ClientStart
  \/ ClientSelect
  \/ TimeoutFires
  \/ ResponseArrives
  \/ ServerStep

SpecClient == InitClient /\ [][NextClient]_vars

\* --------------------- the KnowledgeBase view and deleteDocument (client)
\* selectedDoc, answer and asked are document ids; NoDoc stands for null,
\* for the empty answer and for no processDocument call in flight
NoDoc == 0
NoDelete == [pc |-> "none", doc |-> NoDoc, selectedDoc |-> NoDoc]

IsView == fn.name = "KnowledgeBase"

\* the view after loadDocuments: every document listed, none selected
InitView ==
  /\ fn = [name |-> "KnowledgeBase", selectedDoc |-> NoDoc, answer |-> NoDoc,
           asked |-> NoDoc, documents |-> DocIds, objects |-> DocIds,
           records |-> DocIds, del |-> NoDelete,
           lastDelete |-> [doc |-> NoDoc, result |-> "none"]]
  /\ ver = 2
  /\ files = [d \in DocIds |-> MidFile]
  /\ db = [d \in DocIds |-> [present |-> TRUE, content |-> <<>>, analysis |-> "none"]]
  /\ req = NoReq
  /\ docs = <<>>
  /\ pc = "idle"
  /\ i = 0
  /\ j = 0
  /\ docContent = <<>>
  /\ resolved = <<>>
  /\ combinedContent = <<>>
  /\ excerpts = <<>>
  /\ prompt = <<>>
  /\ resp = NoResp
  /\ calls = NoCalls
  /\ fails = {}

\* onClick of a document card: setSelectedDoc(doc); setAnswer('')
SelectDoc ==
  /\ IsView
  /\ \E d \in fn.documents :
       fn' = [fn EXCEPT !.selectedDoc = d, !.answer = NoDoc]
  /\ UNCHANGED handlerVars

\* handleAskQuestion up to its await; the button is disabled by isAnalyzing
AskQuestion ==
  /\ IsView /\ fn.selectedDoc # NoDoc /\ fn.asked = NoDoc
  /\ fn' = [fn EXCEPT !.asked = fn.selectedDoc, !.answer = NoDoc]
  /\ UNCHANGED handlerVars

\* handleAskQuestion after its await: if (response) setAnswer(response.analysis)
AnswerArrives ==
  /\ IsView /\ fn.asked # NoDoc
  /\ \E response \in {"analysis", "null"} :
       fn' = [fn EXCEPT !.asked = NoDoc,
                        !.answer = IF response = "analysis" THEN fn.asked ELSE @]
  /\ UNCHANGED handlerVars

\* handleDeleteDocument(document) up to deleteDocument's first await; the
\* handler keeps the selectedDoc of the render it was created in
DeleteClick ==
  /\ IsView /\ fn.del.pc = "none"
  /\ \E d \in fn.documents :
       fn' = [fn EXCEPT !.del = [pc |-> "storage", doc |-> d,
                                 selectedDoc |-> fn.selectedDoc]]
  /\ UNCHANGED handlerVars

\* DeleteStorage that goes on to the record when the removal failed
DeleteStorage_IgnoresError ==
  /\ IsView /\ fn.del.pc = "storage"
  /\ \E out \in WriteOutcomes :
       fn' = [fn EXCEPT !.objects = IF out = "ok" THEN @ \ {fn.del.doc} ELSE @,
                        !.del.pc = "record"]
  /\ UNCHANGED handlerVars

\* deleteDocument: storage.from('documents').remove([filePath]) settles; on
\* storageError the catch returns false and handleDeleteDocument finishes
DeleteStorage ==
  /\ IsView /\ fn.del.pc = "storage"
  /\ \E out \in WriteOutcomes :
       IF out = "ok"
       THEN fn' = [fn EXCEPT !.objects = @ \ {fn.del.doc}, !.del.pc = "record"]
       ELSE fn' = [fn EXCEPT !.del = NoDelete,
                             !.lastDelete = [doc |-> fn.del.doc, result |-> "false"]]
  /\ UNCHANGED handlerVars

\* deleteDocument: from('documents').delete().eq('id', documentId) settles;
\* on success handleDeleteDocument clears the selection it captured and
\* reloads the list (fetchDocuments gives [] on error)
DeleteRecord ==
  /\ IsView /\ fn.del.pc = "record"
  /\ \E out \in WriteOutcomes, load \in {"ok", "error"} :
       IF out = "ok"
       THEN LET cleared == fn.del.selectedDoc = fn.del.doc
                records == fn.records \ {fn.del.doc}
            IN fn' = [fn EXCEPT
                        !.records = records,
                        !.selectedDoc = IF cleared THEN NoDoc ELSE @,
                        !.answer = IF cleared THEN NoDoc ELSE @,
                        !.documents = IF load = "ok" THEN records ELSE {},
                        !.del = NoDelete,
                        !.lastDelete = [doc |-> fn.del.doc, result |-> "true"]]
       ELSE /\ load = "ok"
            /\ fn' = [fn EXCEPT
                        !.del = NoDelete,
                        !.lastDelete = [doc |-> fn.del.doc, result |-> "false"]]
  /\ UNCHANGED handlerVars

NextView ==
  \/ SelectDoc
  \/ AskQuestion
  \/ AnswerArrives
  \/ DeleteClick
  \/ DeleteStorage
  \/ DeleteRecord

SpecView == InitView /\ [][NextView]_vars

\* ================================================================ claims

\* p is the text c cut at some length: same pieces, the last one shortened
IsPrefixOf(p, c) ==
  /\ Len(p) <= Len(c)
  /\ \A n \in 1..Len(p) :
       /\ p[n].src = c[n].src /\ p[n].d = c[n].d /\ p[n].off = c[n].off
       /\ IF n < Len(p) THEN p[n].len = c[n].len ELSE p[n].len <= c[n].len

\* the documents the cross-document loop is to visit
Sample == IF ver = 1 THEN DocumentSample ELSE docs

\* no excerpt (revision 3) or no document text (revisions 1, 2) was collected
ZeroCollected == IF ver = 3 THEN excerpts = <<>> ELSE combinedContent = <<>>

C2_NotFoundFails ==
  (pc = "done" /\ req.mode = "single"
     /\ ~(req.documentId \in DocIds /\ db[req.documentId].present))
    => /\ resp.status = 500
       /\ resp.error # "none"
       /\ calls.main = 0
       /\ \A d \in DocIds : calls.download[d] = 0 /\ calls.relevance[d] = 0

C2_Witness ==
  /\ pc = "done" /\ req.mode = "single" /\ req.documentId = NoSuchDoc
  /\ calls.lookup = 1 /\ resp.status = 500

\* document k of the sample was visited by the loops of its revision
Processed(k) ==
  LET doc == Sample[k] IN
  CASE ver = 1 -> (doc.content = <<>> \/ IsBlank(doc.content))
                    => calls.download[doc.id] = 1
    [] ver = 2 -> calls.download[doc.id] = 1
    [] ver = 3 -> /\ doc.content = <<>> => calls.download[doc.id] = 1
                  /\ HasContent(doc.content) =>
                       calls.relevance[doc.id] = Len(chunkText(doc.content, CHUNK_SIZE))

\* C3: in a cross-document request a document whose download or text
\* extraction failed is skipped: every document of the sample is still
\* visited, and unless the main completion call failed as well the
\* response is a success.
C3_SkipAndContinue ==
  (pc = "done" /\ req.mode = "cross" /\ "download" \in fails)
    => /\ i > Len(Sample)
       /\ \A k \in 1..Len(Sample) : Processed(k)
       /\ "main" \notin fails => resp.status = 200

C3_Witness ==
  /\ pc = "done" /\ req.mode = "cross" /\ ver = 2 /\ Len(docs) >= 2
  /\ "download" \in fails /\ combinedContent # <<>> /\ resp = Ok("model")

\* C4: when the filter call is not ok, or an exception reaches the outer
\* catch of checkRelevance (the fetch rejects, the body cannot be read), the
\* result is relevant with the first 3000 characters of the chunk.
C4_FailOpen ==
  (fn.name = "checkRelevance" /\ fn.done /\ RelevanceFailed(fn.out))
    => /\ fn.result.isRelevant
       /\ IsPrefixOf(fn.result.excerpt, fn.chunk)
       /\ CLen(fn.result.excerpt) = Min(CLen(fn.chunk), EXCERPT_LEN)

C4_Witness ==
  /\ fn.name = "checkRelevance" /\ fn.done
  /\ fn.out.kind = "http_error" /\ CLen(fn.chunk) > EXCERPT_LEN
  /\ fn.result.isRelevant /\ CLen(fn.result.excerpt) = EXCERPT_LEN

\* C5: whenever the main completion call failed, the response is a success
\* carrying one of the fixed fallback analysis strings.
C5_ModelFailureFallback ==
  (pc = "done" /\ "main" \in fails)
    => /\ resp.status = 200
       /\ resp.analysis \in {"fallback_cross", "fallback_question", "fallback_summary"}

PersistenceFailures == {"contentWrite", "analysisWrite"}

\* C6: when the only failures of a request are cache-back writes, the
\* response is the success it would have been with the writes succeeding.
C6_PersistFailureIgnored ==
  (pc = "done" /\ fails # {} /\ fails \subseteq PersistenceFailures)
    => /\ resp.status = 200 /\ resp.error = "none"
       /\ resp.analysis \in {"model", "nothing_found", "no_text"}

\* the global ceiling on collected excerpts of the specification's scenario
EXCERPT_CEILING == 2

\* C7: in a cross-document request, once EXCERPT_CEILING excerpts are
\* collected no step of the request makes a storage download or a relevance
\* call, and the number of excerpts stays within the ceiling.
C7_StopsAtCeiling ==
  [][(req.mode = "cross" /\ Len(excerpts) >= EXCERPT_CEILING /\ pc' # "idle")
       => /\ calls'.relevance = calls.relevance
          /\ calls'.download = calls.download
          /\ Len(excerpts') <= EXCERPT_CEILING]_vars

RECURSIVE SumLen(_)
SumLen(parts) == IF parts = <<>> THEN 0 ELSE CLen(Head(parts)) + SumLen(Tail(parts))

\* the length of the first FALLBACK_CHUNKS chunks of the text
FirstChunksLen(text) ==
  LET chunks == chunkText(text, CHUNK_SIZE)
  IN SumLen(SubSeq(chunks, 1, Min(Len(chunks), FALLBACK_CHUNKS)))

\* C8: a single-document question about a document that has text reaches
\* the completion call with non-empty content; when no chunk was judged
\* relevant that content is the prefix of the document made of its first
\* chunks; and the completion call is made.
C8_QuestionContextNonEmpty ==
  (req.mode = "single" /\ req.question /\ resolved # <<>>)
    => /\ pc = "call_model" =>
            /\ prompt # <<>>
            /\ (ver = 3 /\ excerpts = <<>>) =>
                  /\ IsPrefixOf(prompt, resolved)
                  /\ CLen(prompt) = FirstChunksLen(resolved)
       /\ pc = "done" => calls.main = 1

C8_Witness ==
  /\ pc = "call_model" /\ req.mode = "single" /\ req.question /\ ver = 3
  /\ calls.relevance[1] > FALLBACK_CHUNKS /\ excerpts = <<>>
  /\ CLen(prompt) = CHUNK_SIZE * FALLBACK_CHUNKS /\ CLen(resolved) > CLen(prompt)

\* the per-document and the combined ceiling of revisions 1 and 2
DocCeiling == IF ver = 1 THEN V1_DOC_LIMIT ELSE MaxDocContentSize
CombinedCeiling == IF ver = 1 THEN V1_COMBINED_LIMIT ELSE MaxCombinedContentSize

\* C9: the budgeted text of a document is no longer than the ceiling, is the
\* first K characters of the resolved text when that is longer than K, and
\* is the resolved text unchanged otherwise.
C9_StrictPrefixBudget ==
  (ver \in {1, 2} /\ resolved # <<>>)
    => /\ CLen(docContent) <= DocCeiling
       /\ IF CLen(resolved) > DocCeiling
          THEN IsPrefixOf(docContent, resolved) /\ CLen(docContent) = DocCeiling
          ELSE docContent = resolved

\* the characters document d contributes to the text c
RECURSIVE Contributed(_, _)
Contributed(c, d) ==
  IF c = <<>> THEN 0
  ELSE (IF Head(c).d = d /\ Head(c).src \in {"raw", "norm", "marker"}
        THEN Head(c).len ELSE 0) + Contributed(Tail(c), d)

\* C10: in the content of the final cross-document prompt every document's
\* text is within the per-document ceiling and the whole, labels included,
\* is within the combined ceiling.
C10_BothCeilings ==
  (pc = "call_model" /\ req.mode = "cross" /\ ver \in {1, 2})
    => /\ CLen(prompt) <= CombinedCeiling
       /\ \A d \in DocIds : Contributed(prompt, d) <= DocCeiling

\* adjacent pieces that continue one another, written as one piece
RECURSIVE Coalesce(_)
Coalesce(c) ==
  IF Len(c) <= 1 THEN c
  ELSE LET a == c[1]
           b == c[2]
       IN IF a.src = b.src /\ a.d = b.d /\ a.off + a.len = b.off
          THEN Coalesce(<<Piece(a.src, a.d, a.off, a.len + b.len)>>
                          \o SubSeq(c, 3, Len(c)))
          ELSE <<a>> \o Coalesce(Tail(c))

ChunkTextApplied == fn.name = "chunkText" /\ fn.done

C12_CountAndLengths ==
  (ChunkTextApplied /\ ~fn.text.null)
    => LET chunks == fn.result.chunks
           S == fn.chunkSize
           n == Len(chunks)
       IN /\ n = (CLen(fn.text.text) + S - 1) \div S
          /\ \A k \in 1..n :
               IF k < n THEN CLen(chunks[k]) = S
               ELSE CLen(chunks[k]) >= 1 /\ CLen(chunks[k]) <= S

C12_Witness ==
  /\ ChunkTextApplied /\ fn.text = Str(Lit("raw", 1, HugeFile.len))
  /\ fn.chunkSize = CHUNK_SIZE
  /\ Len(fn.result.chunks) = 4
  /\ CLen(fn.result.chunks[4]) = HugeFile.len - 3 * CHUNK_SIZE

\* C13: chunkText called with an empty, null or undefined text returns the
\* empty sequence and does not raise, whatever the chunk size.
C13_EmptyOrNull ==
  (ChunkTextApplied /\ (fn.text.null \/ fn.text.text = <<>>))
    => /\ ~fn.result.raised
       /\ fn.result.chunks = <<>>

\* the positions of the cross-document and of the single-document path
CrossPcs == {"cross_resolve", "cross_scan", "cross_fetch", "cross_filter",
             "call_model", "done"}
SinglePcs == {"lookup", "resolve", "single_filter", "call_model", "persist",
              "done"}

\* C14: a request with a documents array runs the cross-document path only,
\* also when it carries a documentId: no lookup of documentId, no analysis
\* write, content written only for entries of the array; a request without a
\* documents array runs the single-document path only and touches no other
\* document.
C14_OneModePerRequest ==
  /\ req.mode = "cross" =>
       /\ pc \in CrossPcs
       /\ calls.lookup = 0
       /\ \A d \in DocIds :
            /\ calls.analysisWrite[d] = 0
            /\ calls.contentWrite[d] > 0 => \E k \in 1..Len(docs) : docs[k].id = d
  /\ req.mode = "single" =>
       /\ pc \in SinglePcs
       /\ docs = <<>> /\ combinedContent = <<>>
       /\ \A d \in DocIds \ {req.documentId} :
            /\ calls.download[d] = 0 /\ calls.relevance[d] = 0
            /\ calls.contentWrite[d] = 0 /\ calls.analysisWrite[d] = 0

C14_Witness ==
  /\ pc = "done" /\ req.mode = "cross" /\ req.documentId \in DocIds
  /\ Len(docs) >= 1 /\ calls.main = 1 /\ resp = Ok("model")
  /\ db[req.documentId].analysis = "none"

\* C15: a document's stored analysis changes only in a single-document
\* request without a question, for the requested document, whose completion
\* call did not fail and which answers with a success.
C15_AnalysisOnlyForSummary ==
  [][\A d \in DocIds :
       db'[d].analysis # db[d].analysis =>
         /\ req.mode = "single" /\ ~req.question /\ req.documentId = d
         /\ "main" \notin fails'
         /\ resp'.status = 200]_vars

C15_Witness ==
  /\ pc = "done" /\ req.mode = "single" /\ ~req.question
  /\ req.documentId \in DocIds
  /\ calls.analysisWrite[req.documentId] = 1
  /\ db[req.documentId].analysis = "model" /\ resp = Ok("model")

\* the content the request hands to the resolver for document d
Handed(d) ==
  IF req.mode = "cross"
  THEN (IF d \in 1..Len(docs) THEN docs[d].content ELSE <<>>)
  ELSE IF d = req.documentId THEN db[d].content ELSE <<>>

\* the document the handler is at
Current ==
  IF req.mode = "cross"
  THEN (IF i \in 1..Len(docs) THEN docs[i].id ELSE NoSuchDoc)
  ELSE req.documentId

\* C16: for a document handed over with cached text, no step issues a
\* storage download, and the text resolved for it is the cached text.
C16_CachedContentUsed ==
  [][\A d \in DocIds :
       (req.mode # "none" /\ HasContent(Handed(d))) =>
         /\ calls'.download[d] <= calls.download[d]
         /\ (Current = d /\ resolved' # resolved /\ resolved' # <<>>)
              => resolved' = Handed(d)]_vars

\* the download of the requested document succeeded and gave no text
EmptyExtraction ==
  /\ req.documentId \in DocIds
  /\ calls.download[req.documentId] = 1
  /\ files[req.documentId].norm = 0

IsPlaceholder(c) == c # <<>> /\ \A n \in 1..Len(c) : c[n].src = "placeholder"

\* C17: a summary request whose download gave no usable text, and that met
\* no failure, built its prompt from the placeholder text, made the
\* completion call and ends with a success carrying an analysis.
C17_PlaceholderSummary ==
  (pc = "done" /\ req.mode = "single" /\ ~req.question /\ fails = {}
     /\ EmptyExtraction)
    => /\ resp.status = 200 /\ resp.analysis # "none"
       /\ IsPlaceholder(prompt)
       /\ calls.main = 1

\* C18: every status-500 response carries an error field and an analysis
\* field with the retry suggestion, and a response is a 200 or a 500.
C18_ErrorBodyHasAnalysis ==
  pc = "done" =>
    /\ resp.status \in {200, 500}
    /\ resp.status = 500 => resp.error # "none" /\ resp.analysis = "retry"

\* C19: a relevant result of checkRelevance has an excerpt of at most
\* EXCERPT_LEN characters, whether written by the filter model or cut from
\* the chunk.
C19_ExcerptBounded ==
  (fn.name = "checkRelevance" /\ fn.done /\ fn.result.isRelevant)
    => CLen(fn.result.excerpt) <= EXCERPT_LEN

\* the chunks of document d the request is to filter
ChunksOf(d) ==
  IF req.mode = "cross"
  THEN (IF d \in 1..Len(docs) THEN Len(chunkText(docs[d].content, CHUNK_SIZE))
        ELSE 0)
  ELSE IF d = req.documentId THEN Len(chunkText(docContent, CHUNK_SIZE))
  ELSE 0

\* C20: within a request the completion call is made at most once and the
\* relevance call at most once per chunk, whatever the calls come back with.
C20_NoRetries ==
  /\ calls.main <= 1
  /\ \A d \in DocIds : calls.relevance[d] <= ChunksOf(d)
  /\ (pc = "done" /\ "main" \in fails) => calls.main = 1

C20_Witness ==
  /\ pc = "done" /\ ver = 3 /\ req.mode = "single" /\ req.question
  /\ "main" \in fails /\ calls.main = 1
  /\ calls.relevance[1] = 4 /\ ChunksOf(1) = 4

\* the stage of the pipeline a position belongs to
Stage(p) ==
  CASE p = "idle" -> 0
    [] p \in {"lookup", "cross_scan"} -> 1
    [] p \in {"resolve", "cross_resolve", "cross_fetch"} -> 2
    [] p \in {"single_filter", "cross_filter"} -> 3
    [] p = "call_model" -> 4
    [] p = "persist" -> 5
    [] p = "done" -> 6

\* C21: a request received is eventually answered; the answer is a success
\* with an analysis or an error; once made it does not change; and no step
\* of the request goes back to an earlier stage.
C21_OnePassTerminates ==
  /\ (pc # "idle") ~> (pc = "done")
  /\ [](pc = "done" =>
          \/ resp.status = 200 /\ resp.analysis # "none"
          \/ resp.status = 500 /\ resp.error # "none")
  /\ [](pc \notin {"done", "idle"} => resp = NoResp)
  /\ [][pc' # "idle" => Stage(pc') >= Stage(pc)]_vars

C21_Witness ==
  /\ pc = "done" /\ ver = 3 /\ req.mode = "cross" /\ Len(docs) >= 2
  /\ "download" \in fails /\ "main" \in fails /\ resp.status = 500

\* C22: when the timer fires before the function has responded the caller
\* returns null; what it returned never changes afterwards; the timer's
\* firing changes nothing in the edge function, whose pipeline stays able
\* to take its next step.
C22_TimeoutOnlyStopsWaiting ==
  /\ []((IsCaller /\ fn.timedOut /\ fn.pc = "returned") => fn.result = "null")
  /\ []((IsCaller /\ fn.timedOut /\ pc \notin {"idle", "done"})
          => ENABLED ServerStep)
  /\ [][(IsCaller /\ fn.pc = "returned") => fn'.result = fn.result]_vars
  /\ [][(IsCaller /\ fn'.timer # fn.timer /\ fn.timer = "armed")
          => UNCHANGED handlerVars]_vars

C22_Witness ==
  /\ IsCaller /\ fn.timedOut /\ fn.result = "null" /\ fn.delivered
  /\ fn.mainAtTimeout = 0 /\ calls.main = 1
  /\ pc = "done" /\ resp = Ok("model")
  /\ \E d \in DocIds : calls.contentWrite[d] = 1 /\ db[d].content # <<>>

RelevanceApplied == fn.name = "checkRelevance" /\ fn.done

\* C23: on contents that parse, checkRelevance returns relevant with the
\* model's excerpt when marked relevant with an excerpt, relevant with the
\* first EXCERPT_LEN characters of the chunk when marked relevant without
\* one, and not relevant without an excerpt when marked not relevant.
C23_StructuredResponse ==
  (RelevanceApplied /\ fn.out.kind = "json")
    => IF fn.out.isRelevant
       THEN /\ fn.result.isRelevant
            /\ IF fn.out.excerptLen > 0
               THEN fn.result.excerpt = <<Piece("excerpt", 1, 1, fn.out.excerptLen)>>
               ELSE /\ IsPrefixOf(fn.result.excerpt, fn.chunk)
                    /\ CLen(fn.result.excerpt) = Min(CLen(fn.chunk), EXCERPT_LEN)
       ELSE fn.result = NotRelevant

C23_Witness ==
  /\ RelevanceApplied /\ fn.out.kind = "json" /\ fn.out.isRelevant
  /\ fn.out.excerptLen = 1 /\ CLen(fn.chunk) > EXCERPT_LEN
  /\ CLen(fn.result.excerpt) = 1

\* the contents hold the affirmative marker, in any letter case
HoldsMarker(t) ==
  t \in {"Sure: \"isRelevant\": true, \"excerpt\": ...", "\"ISRELEVANT\":TRUE"}

\* C24: on contents that do not parse, the result is relevant with the
\* first EXCERPT_LEN characters of the chunk when the contents hold the
\* marker "isRelevant": true in any letter case, and not relevant otherwise.
C24_UnparseableResponse ==
  (RelevanceApplied /\ fn.out.kind = "text")
    => IF HoldsMarker(fn.out.raw)
       THEN /\ fn.result.isRelevant
            /\ IsPrefixOf(fn.result.excerpt, fn.chunk)
            /\ CLen(fn.result.excerpt) = Min(CLen(fn.chunk), EXCERPT_LEN)
       ELSE fn.result = NotRelevant

C24_Witness ==
  /\ RelevanceApplied /\ fn.out.kind = "text"
  /\ fn.out.raw = "\"ISRELEVANT\":TRUE" /\ CLen(fn.chunk) > EXCERPT_LEN
  /\ fn.result.isRelevant /\ CLen(fn.result.excerpt) = EXCERPT_LEN

RECURSIVE Sum(_, _)
Sum(f, S) ==
  IF S = {} THEN 0
  ELSE LET d == CHOOSE x \in S : TRUE IN f[d] + Sum(f, S \ {d})

\* the documents the request has downloaded or sent to the filter
Touched == {d \in DocIds : calls.download[d] > 0 \/ calls.relevance[d] > 0}

\* C25: in a cross-document request at most MAX_DOCUMENT_SAMPLE documents
\* are resolved or filtered, at most MAX_CHUNKS_PER_ANALYSIS chunks of a
\* document are sent to the filter, and the relevance calls of the request
\* number at most the product of the two.
C25_BoundedWork ==
  req.mode = "cross" =>
    /\ Cardinality(Touched) <= MAX_DOCUMENT_SAMPLE
    /\ \A d \in DocIds : calls.relevance[d] <= MAX_CHUNKS_PER_ANALYSIS
    /\ Sum(calls.relevance, DocIds) <= MAX_DOCUMENT_SAMPLE * MAX_CHUNKS_PER_ANALYSIS

\* C26: a request that met no failure and downloaded the text of a document
\* (the file has text) has, when it answers, written content to the record
\* of that document, and the record holds content.
C26_CacheBack ==
  (pc = "done" /\ fails = {})
    => \A d \in DocIds :
         (calls.download[d] > 0 /\ files[d].norm > 0)
           => calls.contentWrite[d] > 0 /\ db[d].content # <<>>

\* C27: when a cross-document request answers, every document of the sample
\* that came without content has had a storage download attempt.
C27_EachDocumentResolved ==
  (pc = "done" /\ req.mode = "cross")
    => \A k \in 1..Len(Sample) :
         Sample[k].content = <<>> => calls.download[Sample[k].id] > 0

\* what an extraction of the stored file of d gives in the deployed revision
FreshExtraction(d) == IF ver = 2 THEN NormText(d) ELSE RawText(d)

\* C28: whenever a step changes the content of a document's record, the new
\* content is the whole text extracted from the document's file.
C28_CachedContentComplete ==
  [][\A d \in DocIds :
       db'[d].content # db[d].content => db'[d].content = FreshExtraction(d)]_vars

\* C29: the answer shown in the view responds to a question about the
\* document that is selected.
C29_AnswerOfSelected ==
  (IsView /\ fn.answer # NoDoc) => fn.answer = fn.selectedDoc

\* C30: the record of a document is deleted only in a step that finds its
\* storage object removed; a failed storage removal leaves the records as
\* they are; deleteDocument returns true when object and record are both
\* gone and false when the record is still there.
C30_StorageBeforeRecord ==
  /\ []((IsView /\ fn.lastDelete.result = "true")
          => /\ fn.lastDelete.doc \notin fn.objects
             /\ fn.lastDelete.doc \notin fn.records)
  /\ []((IsView /\ fn.lastDelete.result = "false")
          => fn.lastDelete.doc \in fn.records)
  /\ [](IsView => fn.objects \subseteq fn.records)
  /\ [][IsView =>
          /\ \A d \in fn.records \ fn'.records :
               d \notin fn.objects /\ fn.del.pc = "record"
                 /\ fn'.lastDelete = [doc |-> d, result |-> "true"]
          /\ (fn.del.pc = "storage" /\ fn'.del.pc = "none")
               => /\ fn'.records = fn.records /\ fn'.objects = fn.objects
                  /\ fn'.lastDelete.result = "false"]_vars

C30_Witness ==
  /\ IsView /\ fn.lastDelete = [doc |-> 1, result |-> "false"]
  /\ 1 \notin fn.objects /\ 1 \in fn.records /\ 2 \notin fn.records
====
